---- MODULE Spec2Model ----
(***************************************************************************)
(* Model of the login pipeline of template-nestjs-api:                     *)
(*   - SessionStorageInterceptor (request context propagation),            *)
(*   - LoginUseCase / AuthController / UserRepository (authentication),    *)
(*   - LoginSchema and the global validation pipe (validation boundary),   *)
(*   - ResponseInterceptor (response normalization).                       *)
(* Each subsystem has its own next-state relation over the shared state.   *)
(***************************************************************************)
EXTENDS Integers, Sequences, FiniteSets, TLC

VARIABLES
    \* ---- request context propagation (SessionStorageInterceptor) ----
    ipc,        \* per request: "new" | "intercepted" | "subscribed" | "closed"
    tasks,      \* pending continuations, each with the store it captured
    lookup,     \* per request: its most recent lookup of the current session
    lastRan,    \* the request whose code ran most recently (0: none yet)
    emitted,    \* per request: events signalled by next.handle()
    received,   \* per request: events that reached the outer subscriber
    ambient,    \* the current store of code that runs outside every handler
    outside,    \* the most recent lookup made by such code
    unsubAt,    \* per request: how many events the handler had signalled when
                \* the consumer unsubscribed (-1: it has not unsubscribed)
    lazy,       \* one intercepted request: its req.session over time, the
                \* subscriptions of the returned observable, the handler starts
    \* ---- response normalization (ResponseInterceptor) ----
    now,        \* the clock read by new Date()
    envIn,      \* the value the handler emitted last
    envOut,     \* what ResponseInterceptor emitted for it
    envTwice,   \* envOut passed through the interceptor's map once more
    envErr,     \* the error that passed through the interceptor last
    envFail,    \* the error the handler failed with last
    \* ---- authentication (UserRepository, LoginUseCase, POST /auth/login) ----
    users,      \* the rows of table users
    creates,    \* the calls of UserRepository.create so far, with their outcomes
    session,    \* the session of the login request: its data and accesses so far
    calls,      \* per call of LoginUseCase.execute: its progress and outcome
    http,       \* the POST /auth/login request: its stage, body and response
    \* ---- request validation (LoginSchema) ----
    parsed,     \* the body LoginSchema parsed last, with the result
    \* ---- application setup (AppConfig.setup) ----
    setup,      \* per run of AppConfig.setup: its progress, the two Redis
                \* clients, the adapter constructor, the servers created
    cors        \* the origin the CORS callback was asked about last, with
                \* the CORS_ORIGIN setting and the answer

ctxVars == <<ipc, tasks, lookup, lastRan, emitted, received, ambient, outside,
            unsubAt, lazy>>

envVars == <<now, envIn, envOut, envTwice, envErr, envFail>>

authVars == <<users, creates, calls, http, session>>

schemaVars == <<parsed>>

bootVars == <<setup, cors>>

nonCtxVars == <<envVars, authVars, schemaVars, bootVars>>

nonEnvVars == <<ctxVars, authVars, schemaVars, bootVars>>

nonAuthVars == <<ctxVars, envVars, schemaVars, bootVars>>

nonSchemaVars == <<ctxVars, envVars, authVars, bootVars>>

nonBootVars == <<ctxVars, envVars, authVars, schemaVars>>

vars == <<ipc, tasks, lookup, lastRan, emitted, received, ambient, outside, unsubAt,
          lazy,
          now, envIn, envOut, envTwice, envErr, envFail, users, creates, calls,
          http, session, parsed, setup, cors>>

(***************************************************************************)
(* Bounds                                                                  *)
(***************************************************************************)
NumReqs == 2
MaxEmits == 2
MaxClock == 4

NumCalls == 2

MaxCreates == 3

MaxSubs == 3

MaxGens == 3

NumSetups == 2

MaxServers == 1

Reqs == 1..NumReqs

(***************************************************************************)
(* Request context propagation                                             *)
(***************************************************************************)

\* getStore() outside any run(): undefined (no session object has sid 0).
NoContext == [sid |-> 0]

\* The session object fastify attached to request r (distinct per request).
ReqSession(r) == [sid |-> r]

HandlerValues == {"v1", "v2", "v3"}
HandlerErrors == {"UnauthorizedException", "Error"}

\* storage.run(store, fn): fn executes with `store` as the current store,
\* whatever the store of the caller was.
StorageRun(store, outer) == store

\* A continuation created while `current` is the current store resumes with it.
Inherit(current) == current

\* storage.getStore() in a frame whose current store is `current`.
GetStore(current) == current

\* Mutation: the interceptor keeps the first request it saw.
InterceptedSessionStale(r) == ReqSession(1)

\* const req = ctx.getRequest(); ... req.session
InterceptedSession(r) == ReqSession(r)

\* Mutation: next.handle() is subscribed outside storage.run.
HandlerStoreOutside(r, outer) == outer

\* The store in which next.handle().subscribe(...) executes.
HandlerStore(r, outer) == StorageRun(InterceptedSession(r), outer)

\* When storage.run(store, fn) returns, the caller's store is current again.
AfterRun(store, outer) == outer

\* Mutation: the session is bound with enterWith, which stays in force in
\* the calling frame.
AmbientAfterEnterWith(r, outer) == InterceptedSession(r)

\* The current store of the subscribing frame once
\* storage.run(req.session, ...) has returned.
AmbientAfterSubscribe(r, outer) == AfterRun(InterceptedSession(r), outer)

\* Mutation: a handler failure is swallowed and turned into a completion.
InnerObserverSwallow(ev) == IF ev[1] = "error" THEN <<"complete">> ELSE ev

\* { next: v => subscriber.next(v), error: e => subscriber.error(e),
\*   complete: () => subscriber.complete() }
InnerObserver(ev) == ev

HandlerTask(r) == {t \in tasks : t.req = r /\ t.kind = "handler"}
DeferredTask(r) == {t \in tasks : t.req = r /\ t.kind = "deferred"}
Pending(r) == \E t \in tasks : t.req = r

\* No lookup made outside a handler yet.
NoOutsideLookup == [got |-> NoContext, by |-> "nobody", phase |-> "none"]

\* Where the requests stand: "before" the first handler started, "during"
\* some handler's run (between its suspensions), "after" every started
\* handler completed or failed.
Phase ==
    IF \A r \in Reqs : ipc[r] \in {"new", "intercepted"} THEN "before"
    ELSE IF \E r \in Reqs : HandlerTask(r) # {} THEN "during"
    ELSE "after"

\* No lookup made yet.
NoLookup == [got |-> NoContext, by |-> "nobody", interleaved |-> FALSE]

\* A lookup made by request r in a frame whose current store is `current`:
\* what it returned, which part of r's call tree made it ("start": the handler
\* before its first suspension; "handler": the handler after a resumption;
\* "deferred": a deferred callback), and whether another request's code ran
\* while r was suspended before it.
Lookup(r, current, who) ==
    [got |-> GetStore(current), by |-> who,
     interleaved |-> who # "start" /\ lastRan # r]

\* The handler signals ev: the inner observer forwards it to the outer
\* subscriber, which drops it once its consumer has unsubscribed.
Signal(r, ev) ==
    /\ emitted' = [emitted EXCEPT ![r] = Append(@, ev)]
    /\ received' = [received EXCEPT ![r] =
                        IF unsubAt[r] >= 0 THEN @ ELSE Append(@, InnerObserver(ev))]

\* The tasks left once the consumer of request r's observable unsubscribed:
\* the function given to new Observable returns no teardown, so the inner
\* subscription, and with it the handler, stays as it is.
AfterUnsubscribe(r, ts) == ts

\* The g-th session object the session plugin attached to the request.
SessionObject(g) == [sid |-> 1, gen |-> g]

CtxInit ==
    /\ ipc = [r \in Reqs |-> "new"]
    /\ tasks = {}
    /\ lookup = [r \in Reqs |-> NoLookup]
    /\ lastRan = 0
    /\ emitted = [r \in Reqs |-> <<>>]
    /\ received = [r \in Reqs |-> <<>>]
    /\ ambient = NoContext
    /\ outside = NoOutsideLookup
    /\ unsubAt = [r \in Reqs |-> -1]
    /\ lazy = [called |-> FALSE, session |-> SessionObject(0),
               atIntercept |-> NoContext, subs |-> 0, starts |-> <<>>]

\* intercept(): builds the Observable; nothing runs yet.
Intercept(r) ==
    /\ ipc[r] = "new"
    /\ ipc' = [ipc EXCEPT ![r] = "intercepted"]
    /\ UNCHANGED <<tasks, lookup, lastRan, emitted, received>>
    /\ UNCHANGED <<ambient, outside, unsubAt, lazy>>
    /\ UNCHANGED nonCtxVars

\* The returned Observable is subscribed: storage.run(req.session, () =>
\* next.handle().subscribe(...)). The handler starts synchronously inside the
\* run, reads the current session and awaits its first I/O.
Subscribe(r) ==
    /\ ipc[r] = "intercepted"
    /\ LET store == HandlerStore(r, ambient) IN
        /\ lookup' = [lookup EXCEPT ![r] = Lookup(r, store, "start")]
        /\ tasks' = tasks \cup {[req |-> r, kind |-> "handler", store |-> Inherit(store)]}
    /\ ambient' = AmbientAfterSubscribe(r, ambient)
    /\ ipc' = [ipc EXCEPT ![r] = "subscribed"]
    /\ lastRan' = r
    /\ UNCHANGED <<emitted, received, outside, unsubAt, lazy>>
    /\ UNCHANGED nonCtxVars

\* The handler resumes after an await, reads the session and awaits again.
HandlerAwait(r) ==
    /\ \E t \in HandlerTask(r) :
        /\ lookup' = [lookup EXCEPT ![r] = Lookup(r, t.store, "handler")]
        /\ tasks' = (tasks \ {t}) \cup {[t EXCEPT !.store = Inherit(t.store)]}
    /\ lastRan' = r
    /\ UNCHANGED <<ipc, emitted, received>>
    /\ UNCHANGED <<ambient, outside, unsubAt, lazy>>
    /\ UNCHANGED nonCtxVars

\* The handler resumes and schedules a deferred callback (a closure).
HandlerDefer(r) ==
    /\ DeferredTask(r) = {}
    /\ \E t \in HandlerTask(r) :
        tasks' = tasks \cup {[req |-> r, kind |-> "deferred", store |-> Inherit(t.store)]}
    /\ lastRan' = r
    /\ UNCHANGED <<ipc, lookup, emitted, received>>
    /\ UNCHANGED <<ambient, outside, unsubAt, lazy>>
    /\ UNCHANGED nonCtxVars

\* The deferred callback runs and reads the session.
DeferredRun(r) ==
    /\ \E t \in DeferredTask(r) :
        /\ lookup' = [lookup EXCEPT ![r] = Lookup(r, t.store, "deferred")]
        /\ tasks' = tasks \ {t}
    /\ lastRan' = r
    /\ UNCHANGED <<ipc, emitted, received>>
    /\ UNCHANGED <<ambient, outside, unsubAt, lazy>>
    /\ UNCHANGED nonCtxVars

\* The handler resumes, reads the session and emits a value (it has emitted
\* fewer than `limit` so far: a route handler emits its one result, a stream
\* several).
HandlerEmit(r, v, limit) ==
    /\ Len(emitted[r]) < limit
    /\ \E t \in HandlerTask(r) :
        lookup' = [lookup EXCEPT ![r] = Lookup(r, t.store, "handler")]
    /\ Signal(r, <<"next", v>>)
    /\ lastRan' = r
    /\ UNCHANGED <<ipc, tasks>>
    /\ UNCHANGED <<ambient, outside, unsubAt, lazy>>
    /\ UNCHANGED nonCtxVars

\* The handler resumes and completes.
HandlerComplete(r) ==
    /\ \E t \in HandlerTask(r) :
        /\ lookup' = [lookup EXCEPT ![r] = Lookup(r, t.store, "handler")]
        /\ tasks' = tasks \ {t}
    /\ Signal(r, <<"complete">>)
    /\ ipc' = [ipc EXCEPT ![r] = "closed"]
    /\ lastRan' = r
    /\ UNCHANGED <<ambient, outside, unsubAt, lazy>>
    /\ UNCHANGED nonCtxVars

\* The handler resumes and fails.
HandlerFail(r, e) ==
    /\ \E t \in HandlerTask(r) :
        /\ lookup' = [lookup EXCEPT ![r] = Lookup(r, t.store, "handler")]
        /\ tasks' = tasks \ {t}
    /\ Signal(r, <<"error", e>>)
    /\ ipc' = [ipc EXCEPT ![r] = "closed"]
    /\ lastRan' = r
    /\ UNCHANGED <<ambient, outside, unsubAt, lazy>>
    /\ UNCHANGED nonCtxVars

\* The consumer unsubscribes while the handler has not finished.
Unsubscribe(r) ==
    /\ ipc[r] = "subscribed"
    /\ unsubAt[r] = -1
    /\ HandlerTask(r) # {}
    /\ unsubAt' = [unsubAt EXCEPT ![r] = Len(emitted[r])]
    /\ tasks' = AfterUnsubscribe(r, tasks)
    /\ UNCHANGED <<ipc, lookup, lastRan, emitted, received, ambient, outside, lazy>>
    /\ UNCHANGED nonCtxVars

\* Mutation: req.session is read once, when intercept is called.
BoundSessionAtIntercept(atCall, atSubscribe) == atCall

\* The store given to storage.run: `req.session` is evaluated inside the
\* function passed to new Observable, that is, at each subscription.
BoundSession(atCall, atSubscribe) == atSubscribe

\* intercept() is called: it reads the request and builds the observable;
\* next.handle() is not called.
LazyIntercept ==
    /\ ~lazy.called
    /\ lazy' = [lazy EXCEPT !.called = TRUE, !.atIntercept = lazy.session]
    /\ UNCHANGED <<ipc, tasks, lookup, lastRan, emitted, received, ambient, outside,
                   unsubAt>>
    /\ UNCHANGED nonCtxVars

\* The session plugin replaces req.session by a new object (regeneration).
SessionRegenerated ==
    /\ lazy.session.gen < MaxGens
    /\ lazy' = [lazy EXCEPT !.session = SessionObject(lazy.session.gen + 1)]
    /\ UNCHANGED <<ipc, tasks, lookup, lastRan, emitted, received, ambient, outside,
                   unsubAt>>
    /\ UNCHANGED nonCtxVars

\* The returned observable is subscribed (again): storage.run(req.session,
\* () => next.handle().subscribe(...)) starts the handler once.
LazySubscribe ==
    /\ lazy.called
    /\ lazy.subs < MaxSubs
    /\ lazy' = [lazy EXCEPT
                   !.subs = @ + 1,
                   !.starts = Append(@,
                       [sub |-> lazy.subs + 1,
                        store |-> StorageRun(BoundSession(lazy.atIntercept,
                                                          lazy.session), ambient),
                        current |-> lazy.session])]
    /\ UNCHANGED <<ipc, tasks, lookup, lastRan, emitted, received, ambient, outside,
                   unsubAt>>
    /\ UNCHANGED nonCtxVars

LazyNext ==
    \/ LazyIntercept
    \/ SessionRegenerated
    \/ LazySubscribe

\* Code outside every handler (the frame that subscribed, a start-up timer)
\* reads the current session.
OutsideLookup ==
    /\ outside' = [got |-> GetStore(ambient), by |-> "outside", phase |-> Phase]
    /\ UNCHANGED <<ipc, tasks, lookup, lastRan, emitted, received, ambient, unsubAt, lazy>>
    /\ UNCHANGED nonCtxVars

CtxNext ==
    \/ \E r \in Reqs : Intercept(r)
    \/ \E r \in Reqs : Subscribe(r)
    \/ \E r \in Reqs : HandlerAwait(r)
    \/ \E r \in Reqs : HandlerDefer(r)
    \/ \E r \in Reqs : DeferredRun(r)
    \/ \E r \in Reqs : HandlerEmit(r, "v1", 1)
    \/ \E r \in Reqs : HandlerComplete(r)
    \/ \E r \in Reqs : HandlerFail(r, "Error")

\* The wrapper as one subscriber sees it, over every event the handler signals.
WrapNext ==
    \/ Intercept(1)
    \/ Subscribe(1)
    \/ HandlerAwait(1)
    \/ HandlerDefer(1)
    \/ DeferredRun(1)
    \/ \E v \in HandlerValues : HandlerEmit(1, v, MaxEmits)
    \/ HandlerComplete(1)
    \/ \E e \in HandlerErrors : HandlerFail(1, e)

(***************************************************************************)
(* JavaScript values                                                       *)
(* A value is a record: its typeof-like kind, a string (a tuple of         *)
(* characters), a number, and for an object its own properties.            *)
(***************************************************************************)

NoFields == [k \in {} |-> 0]

JUndefined == [type |-> "undefined", prim |-> <<>>, n |-> 0, fields |-> NoFields]
JNull == [type |-> "null", prim |-> <<>>, n |-> 0, fields |-> NoFields]
JBool(b) == [type |-> "boolean", prim |-> IF b THEN <<"t">> ELSE <<"f">>, n |-> 0,
             fields |-> NoFields]
JNum(k) == [type |-> "number", prim |-> <<>>, n |-> k, fields |-> NoFields]
JStr(chars) == [type |-> "string", prim |-> chars, n |-> 0, fields |-> NoFields]
JObj(props) == [type |-> "object", prim |-> <<>>, n |-> 0, fields |-> props]
\* An array: an object whose own properties are its indices ("0", "1", ...).
JArr(len, items) == [type |-> "object", prim |-> <<"[", "]">>, n |-> len,
                     fields |-> items]

\* ToBoolean(v): undefined, null, false, 0 and "" are falsy.
Truthy(v) ==
    CASE v.type \in {"undefined", "null"} -> FALSE
      [] v.type = "boolean" -> v.prim = <<"t">>
      [] v.type = "number" -> v.n # 0
      [] v.type = "string" -> v.prim # <<>>
      [] OTHER -> TRUE

\* typeof v === 'object' (null included, as in JavaScript).
TypeofObject(v) == v.type \in {"object", "null"}

\* key in v, for an object v.
HasKey(v, key) == v.type = "object" /\ key \in DOMAIN v.fields

(***************************************************************************)
(* Text: a string is a tuple of one-character strings                      *)
(***************************************************************************)

UpperLetters == <<"A", "B", "C", "D", "E", "F", "G", "H", "I", "J", "K", "L", "M",
                  "N", "O", "P", "Q", "R", "S", "T", "U", "V", "W", "X", "Y", "Z">>
LowerLetters == <<"a", "b", "c", "d", "e", "f", "g", "h", "i", "j", "k", "l", "m",
                  "n", "o", "p", "q", "r", "s", "t", "u", "v", "w", "x", "y", "z">>
Digits == {"0", "1", "2", "3", "4", "5", "6", "7", "8", "9"}
Whitespace == {" ", "\t", "\n"}

Range(seq) == {seq[i] : i \in DOMAIN seq}
Letters == Range(UpperLetters) \cup Range(LowerLetters)
AlphaNum == Letters \cup Digits

ToLowerChar(c) ==
    IF c \in Range(UpperLetters)
    THEN LowerLetters[CHOOSE i \in DOMAIN UpperLetters : UpperLetters[i] = c]
    ELSE c

\* String.prototype.toLowerCase
ToLowerCase(str) == [i \in DOMAIN str |-> ToLowerChar(str[i])]

\* String.prototype.trim
Trim(str) ==
    LET kept == {i \in DOMAIN str : str[i] \notin Whitespace} IN
    IF kept = {} THEN <<>>
    ELSE LET first == CHOOSE i \in kept : \A j \in kept : i <= j
             last == CHOOSE i \in kept : \A j \in kept : j <= i
         IN SubSeq(str, first, last)

\* n copies of character c.
Repeat(c, n) == [i \in 1..n |-> c]

(***************************************************************************)
(* LoginSchema (zod)                                                       *)
(***************************************************************************)

MinPasswordLen == 6
MaxPasswordLen == 100

\* z.string().email(): zod's email pattern
\*   ^(?!\.)(?!.*\.\.)([A-Z0-9_'+\-\.]*)[A-Z0-9_+-]@([A-Z0-9][A-Z0-9\-]*\.)+[A-Z]{2,}$  (i)
IsEmail(str) ==
    LET ats == {i \in DOMAIN str : str[i] = "@"} IN
    /\ Cardinality(ats) = 1
    /\ LET at == CHOOSE i \in ats : TRUE
           local == SubSeq(str, 1, at - 1)
           domain == SubSeq(str, at + 1, Len(str))
           dots == {i \in DOMAIN domain : domain[i] = "."}
       IN
        /\ str[1] # "."
        /\ \A i \in 1..(Len(str) - 1) : ~(str[i] = "." /\ str[i + 1] = ".")
        /\ Len(local) >= 1
        /\ \A i \in DOMAIN local : local[i] \in AlphaNum \cup {"_", "'", "+", "-", "."}
        /\ local[Len(local)] \in AlphaNum \cup {"_", "+", "-"}
        /\ dots # {}
        /\ LET lastDot == CHOOSE i \in dots : \A j \in dots : j <= i IN
            /\ Len(domain) - lastDot >= 2
            /\ \A i \in (lastDot + 1)..Len(domain) : domain[i] \in Letters
            /\ \A i \in 1..lastDot : domain[i] \in AlphaNum \cup {"-", "."}
            /\ domain[1] \in AlphaNum
            /\ \A i \in dots : i < lastDot => domain[i + 1] \in AlphaNum

Msg_EmailRequired == <<"E", "m", "a", "i", "l", " ", "i", "s", " ", "r", "e", "q", "u", "i", "r", "e", "d">>
Msg_EmailInvalid == <<"M", "u", "s", "t", " ", "b", "e", " ", "a", " ", "v", "a", "l", "i", "d", " ",
                      "e", "m", "a", "i", "l", " ", "a", "d", "d", "r", "e", "s", "s">>
Msg_EmailEmpty == <<"E", "m", "a", "i", "l", " ", "c", "a", "n", "n", "o", "t", " ", "b", "e", " ",
                    "e", "m", "p", "t", "y">>
Msg_PasswordRequired == <<"P", "a", "s", "s", "w", "o", "r", "d", " ", "i", "s", " ",
                          "r", "e", "q", "u", "i", "r", "e", "d">>
Msg_PasswordShort == <<"P", "a", "s", "s", "w", "o", "r", "d", " ", "m", "u", "s", "t", " ", "b", "e", " ",
                       "a", "t", " ", "l", "e", "a", "s", "t", " ", "6", " ",
                       "c", "h", "a", "r", "a", "c", "t", "e", "r", "s">>
Msg_PasswordLong == <<"P", "a", "s", "s", "w", "o", "r", "d", " ", "i", "s", " ", "t", "o", "o", " ",
                      "l", "o", "n", "g">>

Issue(field, message) == [path |-> <<field>>, message |-> message]

\* The property `key` of object o, undefined when o has no such property.
Prop(o, key) == IF HasKey(o, key) THEN o.fields[key] ELSE JUndefined

\* The issues of the email field: a non-string stops at the type check; a string
\* runs every check (.email(), .min(1)) and collects each failure.
EmailIssues(v) ==
    IF v.type # "string" THEN <<Issue("email", Msg_EmailRequired)>>
    ELSE (IF IsEmail(v.prim) THEN <<>> ELSE <<Issue("email", Msg_EmailInvalid)>>)
         \o (IF Len(v.prim) >= 1 THEN <<>> ELSE <<Issue("email", Msg_EmailEmpty)>>)

\* The issues of the password field (.min(6), .max(100)).
PasswordIssues(v) ==
    IF v.type # "string" THEN <<Issue("password", Msg_PasswordRequired)>>
    ELSE (IF Len(v.prim) >= MinPasswordLen THEN <<>>
          ELSE <<Issue("password", Msg_PasswordShort)>>)
         \o (IF Len(v.prim) <= MaxPasswordLen THEN <<>>
             ELSE <<Issue("password", Msg_PasswordLong)>>)

\* .transform((val) => val.toLowerCase().trim())
EmailTransform(chars) == Trim(ToLowerCase(chars))

\* LoginSchema.safeParse(body): the issues, and on success the parsed data
\* (unknown keys stripped, email transformed).
LoginSchemaIssues(body) ==
    EmailIssues(Prop(body, "email")) \o PasswordIssues(Prop(body, "password"))

LoginSchemaData(body) ==
    JObj([email |-> JStr(EmailTransform(Prop(body, "email").prim)),
          password |-> Prop(body, "password")])

(***************************************************************************)
(* Credential store: users table, UserRepository, bcrypt                   *)
(***************************************************************************)

Email_admin == <<"a", "d", "m", "i", "n", "@", "e", "x", "a", "m", "p", "l", "e", ".", "c", "o", "m">>
Email_user == <<"u", "s", "e", "r", "@", "e", "x", "a", "m", "p", "l", "e", ".", "c", "o", "m">>
Email_demo == <<"d", "e", "m", "o", "@", "e", "x", "a", "m", "p", "l", "e", ".", "c", "o", "m">>
Email_USER == <<"U", "S", "E", "R", "@", "E", "x", "a", "m", "p", "l", "e", ".", "c", "o", "m">>
Email_padded == <<" ", "u", "s", "e", "r", "@", "e", "x", "a", "m", "p", "l", "e", ".", "c", "o", "m", " ">>
Email_unknown == <<"n", "o", "b", "o", "d", "y", "@", "e", "x", "a", "m", "p", "l", "e", ".", "c", "o", "m">>
Email_bad == <<"n", "o", "t", "-", "a", "n", "-", "e", "m", "a", "i", "l">>
Password_seed == <<"p", "a", "s", "s", "w", "o", "r", "d", "1", "2", "3">>
Password_wrong == <<"p", "a", "s", "s", "w", "o", "r", "d", "1", "2", "4">>
Password_short == <<"a", "b">>

\* bcrypt uses the first 72 bytes of the data.
BcryptInput(data) == IF Len(data) <= 72 THEN data ELSE SubSeq(data, 1, 72)

\* bcrypt.hash(data, 10): a one-way digest, written as a tagged copy of what
\* bcrypt hashed (never equal to the plaintext itself).
BcryptHash(data) == <<"$", "2", "b", "$", "1", "0", "$">> \o BcryptInput(data)

\* bcrypt.compare(data, hash) for strings.
BcryptCompare(data, hash) == hash = BcryptHash(data)

\* A row of table users (columns of the migration).
Row(id, email, name) ==
    JObj([id |-> JStr(id), email |-> JStr(email),
          password |-> JStr(BcryptHash(Password_seed)), name |-> JStr(name),
          created_at |-> JStr(<<"2", "0", "2", "4">>),
          updated_at |-> JStr(<<"2", "0", "2", "5">>)])

\* The rows inserted by the seed.
SeedUsers ==
    { Row(<<"i", "d", "1">>, Email_admin, <<"A", "d", "m", "i", "n", " ", "U", "s", "e", "r">>),
      Row(<<"i", "d", "2">>, Email_user, <<"T", "e", "s", "t", " ", "U", "s", "e", "r">>),
      Row(<<"i", "d", "3">>, Email_demo, <<"D", "e", "m", "o", " ", "U", "s", "e", "r">>) }

\* new User(props): the entity's attributes, read from the same-named
\* properties of props.
User(props) ==
    JObj([id |-> Prop(props, "id"), email |-> Prop(props, "email"),
          password |-> Prop(props, "password"), name |-> Prop(props, "name"),
          createdAt |-> Prop(props, "createdAt"),
          updatedAt |-> Prop(props, "updatedAt")])

\* An error object: its class, HTTP status (0: not an HttpException), message.
JError(class, status, message) ==
    JObj([name |-> JStr(class), status |-> JNum(status), message |-> JStr(message)])

\* knex refuses to compile a query with an undefined binding.
UndefinedBindingError ==
    JError(<<"E", "r", "r", "o", "r">>, 0,
           <<"U", "n", "d", "e", "f", "i", "n", "e", "d", " ",
             "b", "i", "n", "d", "i", "n", "g">>)

\* The store or the hasher is unavailable.
InfrastructureError ==
    JError(<<"E", "r", "r", "o", "r">>, 0,
           <<"E", "C", "O", "N", "N", "R", "E", "F", "U", "S", "E", "D">>)

\* The store or the hasher does not answer in time.
TimeoutError ==
    JError(<<"E", "r", "r", "o", "r">>, 0, <<"E", "T", "I", "M", "E", "D", "O", "U", "T">>)

\* The errors an awaited store or hasher call can reject with.
InfrastructureErrors == {InfrastructureError, TimeoutError}

\* bcrypt.compare rejects when data or hash is missing.
BcryptArgumentError ==
    JError(<<"E", "r", "r", "o", "r">>, 0,
           <<"d", "a", "t", "a", " ", "a", "n", "d", " ", "h", "a", "s", "h", " ",
             "a", "r", "g", "u", "m", "e", "n", "t", "s", " ",
             "r", "e", "q", "u", "i", "r", "e", "d">>)

Returned(v) == [kind |-> "return", value |-> v]
Thrown(e) == [kind |-> "throw", value |-> e]
NoOutcome == [kind |-> "none", value |-> JUndefined]

\* UserRepository.findByEmail(email) against the rows `table`:
\* db.table('users').where({ email }).first(), then new User(row) or null.
FindByEmail(table, email) ==
    IF email.type = "undefined" THEN Thrown(UndefinedBindingError)
    ELSE LET hits == {row \in table : row.fields.email = email} IN
         IF hits = {} THEN Returned(JNull)
         ELSE Returned(User(CHOOSE row \in hits : TRUE))

(***************************************************************************)
(* Response normalization: ResponseInterceptor                             *)
(***************************************************************************)

\* new Date().toISOString() at clock reading t.
IsoString(t) == [type |-> "string", prim |-> <<"i", "s", "o">>, n |-> t,
                 fields |-> NoFields]

\* Mutation: || instead of && between the two membership tests.
IsStandardFormatEither(data) ==
    /\ Truthy(data)
    /\ TypeofObject(data)
    /\ (HasKey(data, "success") \/ HasKey(data, "timestamp"))

\* isStandardFormat(data)
IsStandardFormat(data) ==
    /\ Truthy(data)
    /\ TypeofObject(data)
    /\ HasKey(data, "success")
    /\ HasKey(data, "timestamp")

\* Mutation: null and undefined payloads get an envelope without 'data'.
MapDataOmitsNull(data, t) ==
    IF IsStandardFormat(data)
    THEN data
    ELSE IF data.type \in {"null", "undefined"}
    THEN JObj([success |-> JBool(TRUE), timestamp |-> IsoString(t)])
    ELSE JObj([success |-> JBool(TRUE), data |-> data, timestamp |-> IsoString(t)])

\* Mutation: the pass-through test is dropped and every value is wrapped.
MapDataAlwaysWrap(data, t) ==
    JObj([success |-> JBool(TRUE),
          data |-> IF data.type \in {"null", "undefined"} THEN JNull ELSE data,
          timestamp |-> IsoString(t)])

\* The function given to map(): data => { ... }
MapData(data, t) ==
    IF IsStandardFormat(data)
    THEN data
    ELSE JObj([success |-> JBool(TRUE),
               data |-> IF data.type \in {"null", "undefined"} THEN JNull ELSE data,
               timestamp |-> IsoString(t)])

\* Mutation: a failure is caught and answered with an envelope.
OnHandlerErrorWrapped(e) ==
    [value |-> JObj([success |-> JBool(FALSE), data |-> JNull,
                     timestamp |-> JStr(<<"t", "0">>)]),
     error |-> "none"]

\* "Nothing emitted yet" (distinct from every JavaScript value).
Nothing == [type |-> "nothing", prim |-> <<>>, n |-> 0, fields |-> NoFields]

\* What next.handle().pipe(map(...)) signals when the handler fails with e:
\* map() is applied to values only, so no value and the same error.
OnHandlerError(e) == [value |-> Nothing, error |-> e]

\* Handler payloads.
PlainObject == JObj([message |-> JStr(<<"o", "k">>)])
Enveloped == JObj([success |-> JBool(TRUE), data |-> PlainObject,
                   timestamp |-> JStr(<<"t", "0">>)])
Payloads ==
    { JUndefined, JNull, JBool(FALSE), JBool(TRUE), JNum(0), JNum(7), JStr(<<>>),
      JStr(<<"o", "k">>), JObj(NoFields), JArr(0, NoFields),
      JArr(1, [k \in {"0"} |-> JNum(1)]), PlainObject,
      Enveloped,
      JObj([success |-> JBool(FALSE), timestamp |-> JStr(<<"t", "0">>)]),
      JObj([success |-> JUndefined, timestamp |-> JUndefined]),
      JObj([success |-> JBool(TRUE)]),
      JObj([timestamp |-> JStr(<<"t", "0">>)]),
      JObj([success |-> JBool(TRUE), data |-> JNull]) }

EnvInit ==
    /\ now = 0
    /\ envIn = Nothing
    /\ envOut = Nothing
    /\ envTwice = Nothing
    /\ envErr = "none"
    /\ envFail = "none"

\* The handler emits `data`: next.handle().pipe(map(...)) emits MapData(data).
EnvEmit(data) ==
    /\ now < MaxClock
    /\ envIn' = data
    /\ envOut' = MapData(data, now)
    /\ envTwice' = Nothing
    /\ envErr' = "none"
    /\ envFail' = "none"
    /\ now' = now + 1
    /\ UNCHANGED nonEnvVars

\* The emitted value goes through the same normalization a second time.
EnvAgain ==
    /\ now < MaxClock
    /\ envOut # Nothing
    /\ envTwice = Nothing
    /\ envTwice' = MapData(envOut, now)
    /\ now' = now + 1
    /\ UNCHANGED <<envIn, envOut, envErr, envFail>>
    /\ UNCHANGED nonEnvVars

\* The handler fails: map() is not applied to errors, which pass through.
EnvError(e) ==
    /\ now < MaxClock
    /\ envIn' = Nothing
    /\ envOut' = OnHandlerError(e).value
    /\ envTwice' = Nothing
    /\ envErr' = OnHandlerError(e).error
    /\ envFail' = e
    /\ now' = now + 1
    /\ UNCHANGED nonEnvVars

EnvNext ==
    \/ \E data \in Payloads : EnvEmit(data)
    \/ EnvAgain
    \/ \E e \in HandlerErrors : EnvError(e)

\* The row the database builds for an insert: id from gen_random_uuid() (the
\* k-th fresh id), created_at and updated_at from now().
NewRow(data, k) ==
    JObj([id |-> JStr(<<"i", "d", ToString(4 + k)>>),
          email |-> Prop(data, "email"), password |-> Prop(data, "password"),
          name |-> Prop(data, "name"),
          created_at |-> JStr(<<"2", "0", "2", "6">>),
          updated_at |-> JStr(<<"2", "0", "2", "6">>)])

\* The unique constraint on users.email: some row holds the same string.
EmailTaken(table, email) == \E row \in table : row.fields.email = email

UniqueViolationError ==
    JError(<<"E", "r", "r", "o", "r">>, 0, <<"d", "u", "p", "l", "i", "c", "a", "t", "e", " ", "k", "e", "y", " ", "v", "a", "l", "u", "e", " ", "v", "i", "o", "l", "a", "t", "e", "s", " ", "u", "n", "i", "q", "u", "e", " ", "c", "o", "n", "s", "t", "r", "a", "i", "n", "t">>)

\* The table after insert(data): unchanged when the constraint rejects it.
Insert(table, data, k) ==
    IF EmailTaken(table, Prop(data, "email")) THEN table
    ELSE table \cup {NewRow(data, k)}

\* What create(userData) gives back: the new User, built from the returned
\* row with created_at/updated_at mapped to createdAt/updatedAt.
CreateOutcome(table, data, k) ==
    IF EmailTaken(table, Prop(data, "email")) THEN Thrown(UniqueViolationError)
    ELSE LET row == NewRow(data, k) IN
         Returned(User(JObj([id |-> row.fields.id, email |-> row.fields.email,
                             password |-> row.fields.password,
                             name |-> row.fields.name,
                             createdAt |-> row.fields.created_at,
                             updatedAt |-> row.fields.updated_at])))

Email_NEW == <<"N", "E", "W", "@", "E", "x", "a", "m", "p", "l", "e", ".", "c", "o", "m">>
Email_new == <<"n", "e", "w", "@", "e", "x", "a", "m", "p", "l", "e", ".", "c", "o", "m">>

\* The user data handed to create (the password already hashed by the caller).
CreateInputs ==
    {JObj([email |-> JStr(e), password |-> JStr(BcryptHash(Password_seed)),
           name |-> JStr(<<"N">>)]) :
        e \in {Email_user, Email_USER, Email_padded, Email_unknown, Email_NEW, Email_new}}

\* UserRepository.create(userData)
Create(userData) ==
    /\ Len(creates) < MaxCreates
    /\ users' = Insert(users, userData, Len(creates))
    /\ creates' = Append(creates, [data |-> userData,
                                   out |-> CreateOutcome(users, userData, Len(creates))])
    /\ UNCHANGED <<calls, http, session>>
    /\ UNCHANGED nonAuthVars

StoreNext == \E userData \in CreateInputs : Create(userData)

(***************************************************************************)
(* LoginUseCase                                                            *)
(***************************************************************************)

\* new UnauthorizedException(message): an HttpException with status 401.
UnauthorizedException(message) ==
    JObj([name |-> JStr(<<"U", "n", "a", "u", "t", "h", "o", "r", "i", "z", "e", "d", "E", "x", "c", "e", "p", "t", "i", "o", "n">>),
          status |-> JNum(401), message |-> JStr(message),
          error |-> JStr(<<"U", "n", "a", "u", "t", "h", "o", "r", "i", "z", "e", "d">>)])

InvalidCredentials == <<"I", "n", "v", "a", "l", "i", "d", " ", "c", "r", "e", "d", "e", "n", "t", "i", "a", "l", "s">>

\* Mutation: an unknown email is reported as such.
UserNotFoundFailureDistinct ==
    JObj([name |-> JStr(<<"N", "o", "t", "F", "o", "u", "n", "d", "E", "x", "c", "e", "p", "t", "i", "o", "n">>),
          status |-> JNum(404), message |-> JStr(<<"U", "s", "e", "r", " ", "n", "o", "t", " ", "f", "o", "u", "n", "d">>),
          error |-> JStr(<<"N", "o", "t", " ", "F", "o", "u", "n", "d">>)])

\* The exception thrown when findByEmail returned no user.
UserNotFoundFailure == UnauthorizedException(InvalidCredentials)

\* The exception thrown when bcrypt.compare returned false.
PasswordMismatchFailure == UnauthorizedException(InvalidCredentials)

\* const { password: _, ...userWithoutPassword } = user
WithoutPassword(user) ==
    JObj([k \in DOMAIN user.fields \ {"password"} |-> user.fields[k]])

\* The object returned by execute (no token is generated).
LoginOutput(user) == JObj([user |-> WithoutPassword(user)])

LoginInput(email, password) == JObj([email |-> email, password |-> password])

Calls == 1..NumCalls

IdleCall ==
    [pc |-> "idle", input |-> JUndefined, user |-> JNull, out |-> NoOutcome,
     asked |-> <<>>, compared |-> <<>>, failed |-> JUndefined, trace |-> <<>>]

\* Mutation: a catch block reports every failure as invalid credentials.
OnRejectedAsInvalidCredentials(e) == Thrown(UnauthorizedException(InvalidCredentials))

\* An awaited promise rejects with e: execute has no try/catch, so the
\* rejection leaves execute as it is.
OnRejected(e) == Thrown(e)

\* execute(input) runs up to its first await: findByEmail(input.email) is called.
Invoked(c, input) ==
    [calls EXCEPT ![c] = [IdleCall EXCEPT !.pc = "find", !.input = input,
                                          !.asked = <<Prop(input, "email")>>,
                                          !.trace = <<"findByEmail">>]]

\* Mutation: an unknown email is still compared against a hash.
AfterFindComparesAnyway(call) ==
    LET found == FindByEmail(users, Prop(call.input, "email")) IN
    IF found.kind = "throw"
    THEN [call EXCEPT !.pc = "done", !.failed = found.value,
                      !.out = OnRejected(found.value)]
    ELSE [call EXCEPT !.pc = "compare", !.user = found.value,
                      !.compared = <<Prop(call.input, "password")>>,
                      !.trace = Append(call.trace, "compare")]

\* The continuation after `await findByEmail(...)`.
AfterFind(call) ==
    LET found == FindByEmail(users, Prop(call.input, "email")) IN
    IF found.kind = "throw"
    THEN [call EXCEPT !.pc = "done", !.failed = found.value,
                      !.out = OnRejected(found.value)]
    ELSE IF ~Truthy(found.value)
    THEN [call EXCEPT !.pc = "done", !.out = Thrown(UserNotFoundFailure)]
    ELSE [call EXCEPT !.pc = "compare", !.user = found.value,
                      !.compared = <<Prop(call.input, "password")>>,
                      !.trace = Append(call.trace, "compare")]

\* The continuation after `await bcrypt.compare(input.password, user.password)`.
AfterCompare(call) ==
    LET data == Prop(call.input, "password")
        hash == Prop(call.user, "password")
    IN  IF data.type # "string" \/ hash.type # "string"
        THEN [call EXCEPT !.pc = "done", !.out = Thrown(BcryptArgumentError)]
        ELSE IF ~BcryptCompare(data.prim, hash.prim)
        THEN [call EXCEPT !.pc = "done", !.out = Thrown(PasswordMismatchFailure)]
        ELSE [call EXCEPT !.pc = "done", !.out = Returned(LoginOutput(call.user))]

\* Inputs of direct calls of the use case.
UcEmails == {Email_user, Email_admin, Email_USER, Email_padded, Email_unknown}
UcPasswords == {Password_seed, Password_wrong, Password_short}
UcInputs == {LoginInput(JStr(e), JStr(p)) : e \in UcEmails, p \in UcPasswords}

\* A caller invokes execute(input).
Execute(c, input) ==
    /\ calls[c].pc = "idle"
    /\ calls' = Invoked(c, input)
    /\ UNCHANGED <<users, creates, http, session>>
    /\ UNCHANGED nonAuthVars

\* Mutation: a login also stamps the record of the email it looked up.
ExecuteResumesTouching(c) ==
    /\ calls[c].pc \in {"find", "compare"}
    /\ calls' = [calls EXCEPT ![c] = IF calls[c].pc = "find"
                                     THEN AfterFind(calls[c])
                                     ELSE AfterCompare(calls[c])]
    /\ users' = {IF row.fields.email = Prop(calls[c].input, "email")
                 THEN [row EXCEPT !.fields.updated_at = JStr(<<"2", "0", "2", "6">>)]
                 ELSE row : row \in users}
    /\ UNCHANGED <<creates, http, session>>
    /\ UNCHANGED nonAuthVars

\* An awaited promise of execute settles and execute runs on.
ExecuteResumes(c) ==
    /\ calls[c].pc \in {"find", "compare"}
    /\ calls' = [calls EXCEPT ![c] = IF calls[c].pc = "find"
                                     THEN AfterFind(calls[c])
                                     ELSE AfterCompare(calls[c])]
    /\ UNCHANGED <<users, creates, http, session>>
    /\ UNCHANGED nonAuthVars

\* The awaited store or hasher call rejects; execute has no try/catch.
ExecuteInterrupted(c, e) ==
    /\ calls[c].pc \in {"find", "compare"}
    /\ calls' = [calls EXCEPT ![c].pc = "done", ![c].failed = e,
                              ![c].out = OnRejected(e)]
    /\ UNCHANGED <<users, creates, http, session>>
    /\ UNCHANGED nonAuthVars

UseCaseNext ==
    \/ \E c \in Calls, input \in UcInputs : Execute(c, input)
    \/ \E c \in Calls : ExecuteResumes(c)
    \/ \E c \in Calls, e \in InfrastructureErrors : ExecuteInterrupted(c, e)

(***************************************************************************)
(* POST /auth/login: validation pipe, controller, filters, serialization   *)
(***************************************************************************)

\* The properties of LoginDto that carry class-validator metadata: the class
\* is generated from the zod schema and declares none.
LoginDtoValidatedProperties == {}

\* The order in which a JSON body lists its properties.
BodyKeys == <<"email", "password">>

\* class-transformer plainToInstance(LoginDto, body): the body's properties
\* copied onto an instance.
PlainToInstance(body) == JObj(body.fields)

\* class-validator's ValidationError for a property that is not whitelisted
\* (whitelist: true and forbidNonWhitelisted: true).
WhitelistError(dto, key) ==
    JObj([target |-> dto, property |-> JStr(<<key>>), value |-> dto.fields[key],
          constraints |-> JObj([whitelistValidation |-> JStr(<<key>> \o <<" ", "s", "h", "o", "u", "l", "d", " ", "n", "o", "t", " ", "e", "x", "i", "s", "t">>)])])

\* validate(dto): one error per own property without validation metadata.
ValidationErrors(dto) ==
    LET bad == SelectSeq(BodyKeys, LAMBDA k : HasKey(dto, k)
                                              /\ k \notin LoginDtoValidatedProperties)
    IN  [i \in 1..Len(bad) |-> WhitelistError(dto, bad[i])]

\* An array built from a sequence of values.
ArrayOf(seq) ==
    JArr(Len(seq), [k \in {ToString(i - 1) : i \in 1..Len(seq)} |->
                        seq[CHOOSE i \in 1..Len(seq) : ToString(i - 1) = k]])

\* I18nValidationExceptionFilter with detailedErrors: true: the body carries
\* the validation errors as they are.
ValidationResponse(errors) ==
    JObj([statusCode |-> JNum(400), message |-> JStr(<<"B", "a", "d", " ", "R", "e", "q", "u", "e", "s", "t">>),
          errors |-> ArrayOf(errors)])

\* Nest's default filter: an HttpException answers with its own status and
\* response, anything else with 500.
IsHttpException(e) == HasKey(e, "status") /\ e.fields.status.n # 0
ExceptionStatus(e) == IF IsHttpException(e) THEN e.fields.status.n ELSE 500
ExceptionResponse(e) ==
    IF IsHttpException(e)
    THEN JObj([message |-> e.fields.message, error |-> e.fields.error,
               statusCode |-> e.fields.status])
    ELSE JObj([statusCode |-> JNum(500), message |-> JStr(<<"I", "n", "t", "e", "r", "n", "a", "l", " ", "s", "e", "r", "v", "e", "r", " ", "e", "r", "r", "o", "r">>)])

\* Mutation: the controller issues a token.
LoginResponseWithToken(result) ==
    LET user == Prop(result, "user") IN
    JObj([user |-> JObj([id |-> Prop(user, "id"), email |-> Prop(user, "email"),
                         name |-> Prop(user, "name"),
                         createdAt |-> Prop(user, "createdAt"),
                         updatedAt |-> Prop(user, "updatedAt")]),
          token |-> JStr(<<"j", "w", "t">>),
          message |-> JStr(<<"L", "o", "g", "i", "n", " ", "s", "u", "c", "c", "e", "s", "s", "f", "u", "l">>)])

\* The object AuthController.login returns for the use case's result.
LoginResponse(result) ==
    LET user == Prop(result, "user") IN
    JObj([user |-> JObj([id |-> Prop(user, "id"), email |-> Prop(user, "email"),
                         name |-> Prop(user, "name"),
                         createdAt |-> Prop(user, "createdAt"),
                         updatedAt |-> Prop(user, "updatedAt")]),
          token |-> Prop(result, "token"),
          message |-> JStr(<<"L", "o", "g", "i", "n", " ", "s", "u", "c", "c", "e", "s", "s", "f", "u", "l">>)])

\* ClassSerializerInterceptor: a plain object has no class-transformer
\* metadata and keeps all its properties.
ClassSerialize(v) == v

\* JSON.stringify: properties whose value is undefined are left out.
RECURSIVE Json(_)
Json(v) ==
    IF v.type # "object" THEN v
    ELSE LET keep == {k \in DOMAIN v.fields : v.fields[k].type # "undefined"} IN
         [v EXCEPT !.fields = [k \in keep |-> Json(v.fields[k])]]

\* The use case call that serves the HTTP request.
HttpCall == 1

HttpEmails ==
    {Email_user, Email_admin, Email_demo, Email_USER, Email_padded, Email_unknown,
     Email_bad, <<>>}
HttpPasswords ==
    {Password_seed, Password_wrong, Password_short, Repeat("x", MinPasswordLen),
     Repeat("x", MaxPasswordLen), Repeat("x", MaxPasswordLen + 1)}
HttpBodies ==
    {JObj([email |-> JStr(e), password |-> JStr(p)]) : e \in HttpEmails, p \in HttpPasswords}
    \cup {JObj([email |-> JStr(e)]) : e \in HttpEmails}
    \cup {JObj([password |-> JStr(p)]) : p \in HttpPasswords}
    \cup {JObj(NoFields)}

\* Values a JSON body can hold under a key; Nothing stands for a missing key.
SchemaEmails == {JStr(e) : e \in HttpEmails} \cup {JNum(1), JBool(TRUE), JNull, Nothing}
SchemaPasswords ==
    {JStr(p) : p \in HttpPasswords \cup {Repeat("x", MinPasswordLen - 1)}}
    \cup {JNum(1), Nothing}

\* The JSON object with the given email and password (a missing one left out).
Body(email, password) ==
    LET present == {k \in {"email", "password"} :
                       (IF k = "email" THEN email ELSE password) # Nothing}
    IN  JObj([k \in present |-> IF k = "email" THEN email ELSE password])

SchemaBodies == {Body(e, p) : e \in SchemaEmails, p \in SchemaPasswords}

SchemaInit == parsed = [body |-> Nothing, issues |-> <<>>, data |-> Nothing]

\* LoginSchema.safeParse(body)
SafeParse(body) ==
    /\ parsed' = [body |-> body, issues |-> LoginSchemaIssues(body),
                  data |-> IF LoginSchemaIssues(body) = <<>>
                           THEN LoginSchemaData(body) ELSE Nothing]
    /\ UNCHANGED nonSchemaVars

SchemaNext == \E body \in SchemaBodies : SafeParse(body)

IdleHttp ==
    [pc |-> "idle", body |-> JUndefined, dto |-> JUndefined, status |-> 0,
     resp |-> JUndefined]

\* The session fastify attached to the request: what it holds from earlier
\* requests of the client, and the reads and writes made while this request
\* is processed.
InitialSession ==
    [data |-> JObj([lang |-> JStr(<<"e", "n">>)]), accesses |-> <<>>]

AuthInit ==
    /\ users = SeedUsers
    /\ creates = <<>>
    /\ session = InitialSession
    /\ calls = [c \in Calls |-> IdleCall]
    /\ http = IdleHttp

\* A POST /auth/login request arrives with a JSON body.
HttpReceive(body) ==
    /\ http.pc = "idle"
    /\ http' = [http EXCEPT !.pc = "pipe", !.body = body]
    /\ UNCHANGED <<users, creates, calls, session>>
    /\ UNCHANGED nonAuthVars

\* The global I18nValidationPipe transforms and validates the body; its
\* exception is answered by I18nValidationExceptionFilter.
HttpValidate ==
    /\ http.pc = "pipe"
    /\ LET dto == PlainToInstance(http.body)
           errors == ValidationErrors(dto)
       IN  http' = IF errors # <<>>
                   THEN [http EXCEPT !.pc = "sent", !.status = 400,
                                     !.resp = Json(ValidationResponse(errors))]
                   ELSE [http EXCEPT !.pc = "handler", !.dto = dto]
    /\ UNCHANGED <<users, creates, calls, session>>
    /\ UNCHANGED nonAuthVars

\* AuthController.login calls the use case and awaits it.
HttpLogin ==
    /\ http.pc = "handler"
    /\ calls[HttpCall].pc = "idle"
    /\ calls' = Invoked(HttpCall, LoginInput(Prop(http.dto, "email"),
                                             Prop(http.dto, "password")))
    /\ http' = [http EXCEPT !.pc = "awaiting"]
    /\ UNCHANGED <<users, creates, session>>
    /\ UNCHANGED nonAuthVars

\* Mutation: a successful login stores the user's id in the session.
HttpRespondStoringUser ==
    /\ http.pc = "awaiting"
    /\ calls[HttpCall].pc = "done"
    /\ LET out == calls[HttpCall].out IN
        /\ http' = IF out.kind = "return"
                    THEN [http EXCEPT !.pc = "sent", !.status = 200,
                                      !.resp = Json(MapData(ClassSerialize(
                                                   LoginResponse(out.value)), now))]
                    ELSE [http EXCEPT !.pc = "sent",
                                      !.status = ExceptionStatus(out.value),
                                      !.resp = Json(ExceptionResponse(out.value))]
        /\ session' = IF out.kind = "return"
                       THEN [data |-> JObj([lang |-> session.data.fields.lang,
                                            userId |-> Prop(Prop(out.value, "user"), "id")]),
                             accesses |-> Append(session.accesses, "write")]
                       ELSE session
    /\ UNCHANGED <<users, creates, calls>>
    /\ UNCHANGED nonAuthVars

\* The use case settled: the controller's return value goes through the
\* interceptors (@HttpCode 200), an exception through the default filter.
HttpRespond ==
    /\ http.pc = "awaiting"
    /\ calls[HttpCall].pc = "done"
    /\ LET out == calls[HttpCall].out IN
       http' = IF out.kind = "return"
               THEN [http EXCEPT !.pc = "sent", !.status = 200,
                                 !.resp = Json(MapData(ClassSerialize(
                                              LoginResponse(out.value)), now))]
               ELSE [http EXCEPT !.pc = "sent",
                                 !.status = ExceptionStatus(out.value),
                                 !.resp = Json(ExceptionResponse(out.value))]
    /\ UNCHANGED <<users, creates, calls, session>>
    /\ UNCHANGED nonAuthVars

\* AuthController.login is called with a LoginDto instance (the argument a
\* passing pipe hands over).
LoginCalled(dto) ==
    /\ http.pc = "idle"
    /\ http' = [http EXCEPT !.pc = "handler", !.dto = dto]
    /\ UNCHANGED <<users, creates, calls, session>>
    /\ UNCHANGED nonAuthVars

ControllerNext ==
    \/ \E dto \in UcInputs : LoginCalled(PlainToInstance(dto))
    \/ HttpLogin
    \/ ExecuteResumes(HttpCall)
    \/ \E e \in InfrastructureErrors : ExecuteInterrupted(HttpCall, e)
    \/ HttpRespond

HttpNext ==
    \/ \E body \in HttpBodies : HttpReceive(body)
    \/ HttpValidate
    \/ HttpLogin
    \/ ExecuteResumes(HttpCall)
    \/ \E e \in InfrastructureErrors : ExecuteInterrupted(HttpCall, e)
    \/ HttpRespond

CancelNext ==
    \/ \E r \in Reqs : Intercept(r)
    \/ \E r \in Reqs : Subscribe(r)
    \/ \E r \in Reqs : Unsubscribe(r)
    \/ \E r \in Reqs : HandlerAwait(r)
    \/ \E r \in Reqs : HandlerEmit(r, "v1", 1)
    \/ \E r \in Reqs : HandlerComplete(r)
    \/ \E r \in Reqs : HandlerFail(r, "Error")

ScopeNext ==
    \/ \E r \in Reqs : Intercept(r)
    \/ \E r \in Reqs : Subscribe(r)
    \/ \E r \in Reqs : HandlerAwait(r)
    \/ \E r \in Reqs : HandlerComplete(r)
    \/ \E r \in Reqs : HandlerFail(r, "Error")
    \/ OutsideLookup

(***************************************************************************)
(* Application setup: the websocket adapter (AppConfig.setup, WsIoAdapter) *)
(***************************************************************************)
Setups == 1..NumSetups

RedisClients == {"pub", "sub"}

\* WsIoAdapter.adapterConstructor before connectToRedis assigned it.
Unset == [kind |-> "undefined"]

\* createAdapter(pubClient, subClient)
CreateAdapter(pubClient, subClient) ==
    [kind |-> "adapter", pub |-> pubClient, sub |-> subClient]

\* Mutation: the first connection that succeeds settles the wait.
PromiseAny(states) ==
    IF \E i \in DOMAIN states : states[i] = "connected" THEN "fulfilled"
    ELSE IF \A i \in DOMAIN states : states[i] = "failed" THEN "rejected"
    ELSE "pending"

\* Promise.all([pubClient.connect(), subClient.connect()]): rejected as soon
\* as one connection failed, fulfilled once every connection succeeded.
PromiseAll(states) ==
    IF \E i \in DOMAIN states : states[i] = "failed" THEN "rejected"
    ELSE IF \A i \in DOMAIN states : states[i] = "connected" THEN "fulfilled"
    ELSE "pending"

\* new WsIoAdapter(app), before setup has run.
NewSetup ==
    [pc |-> "idle", pub |-> "wait", sub |-> "wait", adapterConstructor |-> Unset,
     registered |-> FALSE, servers |-> <<>>]

\* setup creates the adapter and calls connectToRedis, which creates the two
\* clients (lazyConnect) and calls connect() on both.
SetupStart(k) ==
    /\ setup[k].pc = "idle"
    /\ setup' = [setup EXCEPT ![k].pc = "connecting",
                              ![k].pub = "connecting",
                              ![k].sub = "connecting"]
    /\ UNCHANGED cors
    /\ UNCHANGED nonBootVars

\* A client's connection attempt ends: it connected, or it failed.
ClientSettles(k, client, outcome) ==
    /\ setup[k][client] = "connecting"
    /\ setup' = [setup EXCEPT ![k][client] = outcome]
    /\ UNCHANGED cors
    /\ UNCHANGED nonBootVars

\* The await of Promise.all in connectToRedis ends: on fulfilment the adapter
\* constructor is assigned and connectToRedis returns; on rejection it
\* throws, and so does setup.
ConnectToRedisSettles(k) ==
    /\ setup[k].pc = "connecting"
    /\ LET all == PromiseAll(<<setup[k].pub, setup[k].sub>>) IN
        /\ all # "pending"
        /\ setup' = IF all = "fulfilled"
                     THEN [setup EXCEPT
                             ![k].pc = "connected",
                             ![k].adapterConstructor = CreateAdapter(setup[k].pub,
                                                                     setup[k].sub)]
                     ELSE [setup EXCEPT ![k].pc = "failed"]
    /\ UNCHANGED cors
    /\ UNCHANGED nonBootVars

\* app.useWebSocketAdapter(wsIoAdapter), the statement after the await.
UseWebSocketAdapter(k) ==
    /\ setup[k].pc = "connected"
    /\ setup' = [setup EXCEPT ![k].pc = "registered", ![k].registered = TRUE]
    /\ UNCHANGED cors
    /\ UNCHANGED nonBootVars

\* The application asks its registered adapter for a server: createIOServer
\* attaches this.adapterConstructor to it.
CreateIOServer(k) ==
    /\ setup[k].registered
    /\ Len(setup[k].servers) < MaxServers
    /\ setup' = [setup EXCEPT ![k].servers = Append(@, setup[k].adapterConstructor)]
    /\ UNCHANGED cors
    /\ UNCHANGED nonBootVars

SetupNext ==
    \E k \in Setups :
        \/ SetupStart(k)
        \/ \E c \in RedisClients : ClientSettles(k, c, "connected")
        \/ \E c \in RedisClients : ClientSettles(k, c, "failed")
        \/ ConnectToRedisSettles(k)
        \/ UseWebSocketAdapter(k)
        \/ CreateIOServer(k)

(***************************************************************************)
(* Application setup: the CORS origin callback (AppConfig.setup)           *)
(***************************************************************************)
\* String.prototype.includes
Includes(str, t) ==
    \E i \in 0..(Len(str) - Len(t)) : SubSeq(str, i + 1, i + Len(t)) = t

\* String.prototype.split with a one-character separator: the empty string
\* gives one empty piece.
RECURSIVE SplitOn(_, _)
SplitOn(str, sep) ==
    LET at == {i \in DOMAIN str : str[i] = sep} IN
    IF at = {} THEN <<str>>
    ELSE LET i == CHOOSE j \in at : \A k \in at : j <= k
         IN <<SubSeq(str, 1, i - 1)>> \o SplitOn(SubSeq(str, i + 1, Len(str)), sep)

\* process.env.CORS_ORIGIN?.split(',') || []
AllowedOrigins(corsOrigin) ==
    IF corsOrigin.type = "undefined" THEN <<>> ELSE SplitOn(corsOrigin.prim, ",")

\* \d{1,3}
IsOctet(str) == Len(str) \in 1..3 /\ \A i \in DOMAIN str : str[i] \in Digits

\* The four dot-separated pieces of the host of an origin of the form
\* ^http://A.B.C.D(:\d+)?$, and <<>> for an origin of any other form.
HttpQuad(origin) ==
    LET scheme == <<"h", "t", "t", "p", ":", "/", "/">> IN
    IF Len(origin) < Len(scheme) \/ SubSeq(origin, 1, Len(scheme)) # scheme THEN <<>>
    ELSE LET hostPort == SplitOn(SubSeq(origin, Len(scheme) + 1, Len(origin)), ":")
             quad == SplitOn(hostPort[1], ".")
             portOk == \/ Len(hostPort) = 1
                       \/ /\ Len(hostPort) = 2
                          /\ hostPort[2] # <<>>
                          /\ \A i \in DOMAIN hostPort[2] : hostPort[2][i] \in Digits
         IN IF portOk /\ Len(quad) = 4 THEN quad ELSE <<>>

\* /^http:\/\/192\.168\.\d{1,3}\.\d{1,3}(:\d+)?$/.test(origin)
Matches192(origin) ==
    LET q == HttpQuad(origin) IN
    /\ q # <<>>
    /\ q[1] = <<"1", "9", "2">>
    /\ q[2] = <<"1", "6", "8">>
    /\ IsOctet(q[3])
    /\ IsOctet(q[4])

\* /^http:\/\/10\.\d{1,3}\.\d{1,3}\.\d{1,3}(:\d+)?$/.test(origin)
Matches10(origin) ==
    LET q == HttpQuad(origin) IN
    /\ q # <<>>
    /\ q[1] = <<"1", "0">>
    /\ IsOctet(q[2])
    /\ IsOctet(q[3])
    /\ IsOctet(q[4])

\* /^http:\/\/172\.(1[6-9]|2\d|3[0-1])\.\d{1,3}\.\d{1,3}(:\d+)?$/.test(origin)
Matches172(origin) ==
    LET q == HttpQuad(origin) IN
    /\ q # <<>>
    /\ q[1] = <<"1", "7", "2">>
    /\ Len(q[2]) = 2
    /\ \/ q[2][1] = "1" /\ q[2][2] \in {"6", "7", "8", "9"}
       \/ q[2][1] = "2" /\ q[2][2] \in Digits
       \/ q[2][1] = "3" /\ q[2][2] \in {"0", "1"}
    /\ IsOctet(q[3])
    /\ IsOctet(q[4])

\* callback(null, true)
Allowed == [error |-> JNull, allow |-> JBool(TRUE)]

\* callback(new Error('Not allowed by CORS'))
NotAllowedByCors ==
    [error |-> JError(<<"E", "r", "r", "o", "r">>, 0,
                      <<"N", "o", "t", " ", "a", "l", "l", "o", "w", "e", "d", " ",
                        "b", "y", " ", "C", "O", "R", "S">>),
     allow |-> JUndefined]

\* The function given to enableCors as `origin`.
OriginCallback(corsOrigin, origin) ==
    LET allowedOrigins == AllowedOrigins(corsOrigin) IN
    IF \/ ~Truthy(origin)
       \/ origin.prim = <<"n", "u", "l", "l">>
       \/ Includes(origin.prim, <<"l", "o", "c", "a", "l", "h", "o", "s", "t">>)
       \/ Includes(origin.prim, <<"1", "2", "7", ".", "0", ".", "0", ".", "1">>)
       \/ Matches192(origin.prim)
       \/ Matches10(origin.prim)
       \/ Matches172(origin.prim)
       \/ origin.prim \in Range(allowedOrigins)
    THEN Allowed
    ELSE IF Len(allowedOrigins) = 0 \/ allowedOrigins[1] = <<"*">>
    THEN Allowed
    ELSE NotAllowedByCors

Origin_null == <<"n", "u", "l", "l">>
Origin_localhost ==
    <<"h", "t", "t", "p", ":", "/", "/", "l", "o", "c", "a", "l", "h", "o", "s", "t",
      ":", "3", "0", "0", "0">>
Origin_loopback ==
    <<"h", "t", "t", "p", ":", "/", "/", "1", "2", "7", ".", "0", ".", "0", ".", "1",
      ":", "8", "0", "8", "0">>
Origin_localhostEvil ==
    <<"h", "t", "t", "p", "s", ":", "/", "/", "l", "o", "c", "a", "l", "h", "o", "s",
      "t", ".", "e", "v", "i", "l", ".", "c", "o", "m">>
Origin_loopbackEvil ==
    <<"h", "t", "t", "p", "s", ":", "/", "/", "1", "2", "7", ".", "0", ".", "0", ".",
      "1", ".", "e", "v", "i", "l", ".", "c", "o", "m">>
Origin_notlocalhost ==
    <<"h", "t", "t", "p", "s", ":", "/", "/", "n", "o", "t", "l", "o", "c", "a", "l",
      "h", "o", "s", "t", ".", "c", "o", "m">>
Origin_192 ==
    <<"h", "t", "t", "p", ":", "/", "/", "1", "9", "2", ".", "1", "6", "8", ".", "1",
      ".", "1", "0">>
Origin_192port ==
    <<"h", "t", "t", "p", ":", "/", "/", "1", "9", "2", ".", "1", "6", "8", ".", "1",
      ".", "1", "0", ":", "3", "0", "0", "0">>
Origin_192https ==
    <<"h", "t", "t", "p", "s", ":", "/", "/", "1", "9", "2", ".", "1", "6", "8", ".",
      "1", ".", "1", "0">>
Origin_192evil ==
    <<"h", "t", "t", "p", ":", "/", "/", "1", "9", "2", ".", "1", "6", "8", ".", "1",
      ".", "1", "0", ".", "e", "v", "i", "l", ".", "c", "o", "m">>
Origin_192long ==
    <<"h", "t", "t", "p", ":", "/", "/", "1", "9", "2", ".", "1", "6", "8", ".", "1",
      ".", "1", "0", "0", "0">>
Origin_10 ==
    <<"h", "t", "t", "p", ":", "/", "/", "1", "0", ".", "0", ".", "0", ".", "5">>
Origin_172low ==
    <<"h", "t", "t", "p", ":", "/", "/", "1", "7", "2", ".", "1", "5", ".", "0", ".",
      "1">>
Origin_172first ==
    <<"h", "t", "t", "p", ":", "/", "/", "1", "7", "2", ".", "1", "6", ".", "0", ".",
      "1">>
Origin_172last ==
    <<"h", "t", "t", "p", ":", "/", "/", "1", "7", "2", ".", "3", "1", ".", "2", "5",
      "5", ".", "2", "5", "5", ":", "8", "0">>
Origin_172high ==
    <<"h", "t", "t", "p", ":", "/", "/", "1", "7", "2", ".", "3", "2", ".", "0", ".",
      "1">>
Origin_app ==
    <<"h", "t", "t", "p", "s", ":", "/", "/", "a", "p", "p", ".", "e", "x", "a", "m",
      "p", "l", "e", ".", "c", "o", "m">>
Origin_admin ==
    <<"h", "t", "t", "p", "s", ":", "/", "/", "a", "d", "m", "i", "n", ".", "e", "x",
      "a", "m", "p", "l", "e", ".", "c", "o", "m">>
Origin_evil ==
    <<"h", "t", "t", "p", "s", ":", "/", "/", "e", "v", "i", "l", ".", "e", "x", "a",
      "m", "p", "l", "e", ".", "c", "o", "m">>

\* The Origin header of a request: absent, or a string.
CorsOrigins ==
    {JUndefined} \cup
    {JStr(o) : o \in {Origin_null, Origin_localhost, Origin_loopback,
                      Origin_localhostEvil, Origin_loopbackEvil,
                      Origin_notlocalhost, Origin_192, Origin_192port,
                      Origin_192https, Origin_192evil, Origin_192long, Origin_10,
                      Origin_172low, Origin_172first, Origin_172last,
                      Origin_172high, Origin_app, Origin_admin, Origin_evil}}

CorsOrigin_empty == <<>>
CorsOrigin_star == <<"*">>
CorsOrigin_app ==
    <<"h", "t", "t", "p", "s", ":", "/", "/", "a", "p", "p", ".", "e", "x", "a", "m",
      "p", "l", "e", ".", "c", "o", "m">>
CorsOrigin_two ==
    <<"h", "t", "t", "p", "s", ":", "/", "/", "a", "p", "p", ".", "e", "x", "a", "m",
      "p", "l", "e", ".", "c", "o", "m", ",", "h", "t", "t", "p", "s", ":", "/", "/",
      "a", "d", "m", "i", "n", ".", "e", "x", "a", "m", "p", "l", "e", ".", "c", "o",
      "m">>
CorsOrigin_starFirst ==
    <<"*", ",", "h", "t", "t", "p", "s", ":", "/", "/", "a", "p", "p", ".", "e", "x",
      "a", "m", "p", "l", "e", ".", "c", "o", "m">>
CorsOrigin_starLast ==
    <<"h", "t", "t", "p", "s", ":", "/", "/", "a", "p", "p", ".", "e", "x", "a", "m",
      "p", "l", "e", ".", "c", "o", "m", ",", "*">>

\* The environment variable CORS_ORIGIN: not set, or a string.
CorsSettings ==
    {JUndefined} \cup
    {JStr(e) : e \in {CorsOrigin_empty, CorsOrigin_star, CorsOrigin_app, CorsOrigin_two,
                      CorsOrigin_starFirst, CorsOrigin_starLast}}

\* The CORS middleware asks the callback about the origin of a request.
CorsRequest(corsOrigin, origin) ==
    /\ cors' = [asked |-> TRUE, corsOrigin |-> corsOrigin, origin |-> origin,
                result |-> OriginCallback(corsOrigin, origin)]
    /\ UNCHANGED setup
    /\ UNCHANGED nonBootVars

CorsNext ==
    \E corsOrigin \in CorsSettings, origin \in CorsOrigins :
        CorsRequest(corsOrigin, origin)

BootInit ==
    /\ setup = [k \in Setups |-> NewSetup]
    /\ cors = [asked |-> FALSE]

Init == CtxInit /\ EnvInit /\ AuthInit /\ SchemaInit /\ BootInit

SpecSetup == Init /\ [][SetupNext]_vars

SpecCors == Init /\ [][CorsNext]_vars

SpecUseCase == Init /\ [][UseCaseNext]_vars

SpecHttp == Init /\ [][HttpNext]_vars

SpecController == Init /\ [][ControllerNext]_vars

SpecStore == Init /\ [][StoreNext]_vars

SpecSchema == Init /\ [][SchemaNext]_vars

SpecCtx == Init /\ [][CtxNext]_vars

SpecWrap == Init /\ [][WrapNext]_vars

SpecScope == Init /\ [][ScopeNext]_vars

SpecCancel == Init /\ [][CancelNext]_vars

SpecLazy == Init /\ [][LazyNext]_vars

SpecEnv == Init /\ [][EnvNext]_vars

(***************************************************************************)
(* Claims on request context propagation                                   *)
(***************************************************************************)

\* C1 - Context isolation: for any two requests a and b with distinct session
\* objects whose handlers interleave at every suspension point, every lookup
\* made from a's call tree returns a's session and never b's.
C1_ContextIsolation ==
    \A a \in Reqs, b \in Reqs :
        (a # b /\ lookup[a].by # "nobody") =>
            /\ lookup[a].got = ReqSession(a)
            /\ lookup[a].got # ReqSession(b)

\* Two requests are in flight at once and each has just read its session
\* after the other one ran during its suspension.
C1_Witness ==
    \E a \in Reqs, b \in Reqs :
        /\ a # b
        /\ HandlerTask(a) # {} /\ HandlerTask(b) # {}
        /\ lookup[a].interleaved /\ lookup[b].interleaved

\* C2 - Binding survives suspension: from the start of a request's handler to
\* its end, every continuation of it carries the request's req.session, and
\* every lookup by the resumed handler or by a deferred callback chained from
\* it returns exactly that object, also when other requests ran in between.
C2_BindingSurvivesSuspension ==
    \A r \in Reqs :
        /\ \A t \in tasks : t.req = r => t.store = ReqSession(r)
        /\ lookup[r].by \in {"handler", "deferred"} => lookup[r].got = ReqSession(r)

\* A deferred callback of a request read the session after another request
\* had run during the suspension.
C2_Witness ==
    \E r \in Reqs : lookup[r].by = "deferred" /\ lookup[r].interleaved

\* C10 - Context wrapper transparency: the values, the error and the
\* completion the wrapped handler signals reach the subscriber of the
\* observable returned by intercept unchanged and in the same order.
C10_WrapperTransparent ==
    \A r \in Reqs : received[r] = emitted[r]

\* The subscriber received a value and then the handler's failure.
C10_Witness ==
    \E r \in Reqs, e \in HandlerErrors :
        /\ Len(received[r]) >= 2
        /\ received[r][1][1] = "next"
        /\ received[r][Len(received[r])] = <<"error", e>>

\* C17 - No context outside a request scope: a lookup of the current session
\* made outside every handler run by the interceptor returns the 'no
\* context' value: before the first request, while requests are in flight,
\* and after handlers completed or failed.
C17_NoContextOutside ==
    /\ ambient = NoContext
    /\ outside.by = "outside" => outside.got = NoContext

\* An outside lookup was made after every handler had ended, one with a
\* completion and one with a failure.
C17_Witness ==
    /\ outside.by = "outside" /\ outside.phase = "after"
    /\ \A r \in Reqs : ipc[r] = "closed"
    /\ \E r \in Reqs : received[r][Len(received[r])][1] = "error"
    /\ \E r \in Reqs : received[r][Len(received[r])][1] = "complete"

\* C23 - Cancellation of the context wrapper: once the consumer has
\* unsubscribed before the handler finished, the inner subscription is torn
\* down: the handler's work is cancelled and it signals no further event.
C23_AsStated ==
    \A r \in Reqs :
        unsubAt[r] >= 0 =>
            /\ ~Pending(r)
            /\ Len(emitted[r]) = unsubAt[r]

\* intercept has not started the handler, and each subscription of the
\* returned observable started it exactly once.
StartsOncePerSubscription ==
    /\ ~lazy.called => lazy.subs = 0
    /\ Len(lazy.starts) = lazy.subs
    /\ \A i \in DOMAIN lazy.starts : lazy.starts[i].sub = i

\* C24 as stated - Lazy, once-per-subscription binding: intercept does not
\* start the handler; each subscription starts it exactly once, inside the
\* scope bound to the req.session read when intercept was called.
C24_AsStated ==
    /\ StartsOncePerSubscription
    /\ \A i \in DOMAIN lazy.starts : lazy.starts[i].store = lazy.atIntercept

\* C24 amended - as C24, except that the scope is bound to the req.session
\* of the request at the time of the subscription (intercept keeps the
\* request, and reads its session at each subscription).
C24_LazyBinding ==
    /\ StartsOncePerSubscription
    /\ \A i \in DOMAIN lazy.starts : lazy.starts[i].store = lazy.starts[i].current

\* intercept was called, nothing started until the first subscription; a
\* second subscription started the handler again after req.session had been
\* replaced.
C24_Witness ==
    /\ lazy.called
    /\ lazy.subs = 2
    /\ lazy.starts[1].store = lazy.atIntercept
    /\ lazy.starts[2].store # lazy.atIntercept

(***************************************************************************)
(* Claims on response normalization                                        *)
(***************************************************************************)

\* An object that already contains both a 'success' and a 'timestamp' field.
AlreadyEnveloped(v) ==
    v.type = "object" /\ {"success", "timestamp"} \subseteq DOMAIN v.fields

\* An envelope built around `inner`: exactly {success: true, data: inner,
\* timestamp: <ISO string>}.
WrapsOnce(v, inner) ==
    /\ v.type = "object"
    /\ DOMAIN v.fields = {"success", "data", "timestamp"}
    /\ v.fields.success = JBool(TRUE)
    /\ v.fields.data = inner
    /\ v.fields.timestamp.type = "string"

\* C8 as stated - Envelope idempotence: an object that already has 'success'
\* and 'timestamp' passes through identical; any other value is wrapped exactly
\* once with 'data' equal to that value; normalizing twice equals normalizing
\* once.
C8_AsStated ==
    envOut # Nothing =>
        /\ AlreadyEnveloped(envIn) => envOut = envIn
        /\ ~AlreadyEnveloped(envIn) => WrapsOnce(envOut, envIn)
        /\ envTwice # Nothing => envTwice = envOut

\* C8 amended - as C8, except that for the value undefined the envelope's
\* 'data' is null.
C8_EnvelopeIdempotence ==
    envOut # Nothing =>
        /\ AlreadyEnveloped(envIn) => envOut = envIn
        /\ ~AlreadyEnveloped(envIn) =>
              WrapsOnce(envOut, IF envIn = JUndefined THEN JNull ELSE envIn)
        /\ envTwice # Nothing => envTwice = envOut

\* undefined was wrapped, and the envelope went through the map a second time.
C8_Witness ==
    /\ envIn = JUndefined
    /\ WrapsOnce(envOut, JNull)
    /\ envTwice = envOut

\* C9 as stated - Envelope shape: every value emitted for a successful
\* handler result, whatever the payload, is an object with success equal to
\* true, a 'data' field and a 'timestamp' field.
C9_AsStated ==
    envOut # Nothing =>
        /\ envOut.type = "object"
        /\ {"success", "data", "timestamp"} \subseteq DOMAIN envOut.fields
        /\ envOut.fields.success = JBool(TRUE)

\* C9 amended - every emitted value is an object with a 'success' and a
\* 'timestamp' field; success is true and a 'data' field is present whenever
\* the payload was not already an object with both 'success' and 'timestamp'.
C9_EnvelopeShape ==
    envOut # Nothing =>
        /\ envOut.type = "object"
        /\ {"success", "timestamp"} \subseteq DOMAIN envOut.fields
        /\ ~AlreadyEnveloped(envIn) =>
              /\ "data" \in DOMAIN envOut.fields
              /\ envOut.fields.success = JBool(TRUE)

\* A falsy payload (the number 0) was wrapped into a success envelope.
C9_Witness ==
    /\ envIn = JNum(0)
    /\ envOut.type = "object"
    /\ envOut.fields.success = JBool(TRUE)
    /\ envOut.fields.data = JNum(0)

\* C18 - Null payload: when the handler returns null or undefined, the value
\* emitted is an envelope with success true, a timestamp, and a 'data' field
\* that is present and equal to null.
C18_NullPayload ==
    envIn \in {JNull, JUndefined} =>
        /\ envOut.type = "object"
        /\ HasKey(envOut, "data") /\ envOut.fields.data = JNull
        /\ HasKey(envOut, "success") /\ envOut.fields.success = JBool(TRUE)
        /\ HasKey(envOut, "timestamp") /\ envOut.fields.timestamp.type = "string"
        /\ DOMAIN envOut.fields = {"success", "data", "timestamp"}

\* The handler returned undefined and an envelope was emitted for it.
C18_Witness ==
    envIn = JUndefined /\ envOut # Nothing /\ HasKey(envOut, "data")

\* C19 - No error-path wrapping: when the handler fails, no envelope is
\* emitted and the subscriber gets the same error; an envelope is emitted
\* only for a value the handler emitted.
C19_NoErrorWrapping ==
    /\ envFail # "none" =>
           /\ envErr = envFail
           /\ envOut = Nothing
           /\ envTwice = Nothing
    /\ envOut # Nothing => (envIn # Nothing /\ envFail = "none" /\ envErr = "none")

\* The handler failed with an UnauthorizedException after an earlier value
\* had been wrapped.
C19_Witness ==
    /\ envFail = "UnauthorizedException"
    /\ envErr = "UnauthorizedException"
    /\ now >= 2

(***************************************************************************)
(* Claims on authentication                                                *)
(***************************************************************************)

\* The call ran to its end without the store or the hasher failing.
StoreAnswered(call) ==
    call.pc = "done" /\ call.failed.type = "undefined"

\* The rows stored under the email of `input`.
RowsOf(input) == {row \in users : row.fields.email = Prop(input, "email")}

\* The password of `input` matches the stored hash of `row`.
Matches(input, row) ==
    /\ Prop(input, "password").type = "string"
    /\ BcryptCompare(Prop(input, "password").prim, row.fields.password.prim)

EmailUnknown(input) == RowsOf(input) = {}

PasswordWrong(input) ==
    RowsOf(input) # {} /\ \A row \in RowsOf(input) : ~Matches(input, row)

\* C3 - Enumeration resistance: whenever one login fails because the email
\* has no stored record and another fails because the email exists but the
\* password does not match, both signal the same failure with the same
\* payload, UnauthorizedException 'Invalid credentials', answered as 401 with
\* the same response body.
C3_EnumerationResistance ==
    \A c \in Calls, d \in Calls :
        ( /\ StoreAnswered(calls[c]) /\ EmailUnknown(calls[c].input)
          /\ StoreAnswered(calls[d]) /\ PasswordWrong(calls[d].input) ) =>
            /\ calls[c].out = calls[d].out
            /\ calls[c].out = Thrown(UnauthorizedException(InvalidCredentials))
            /\ ExceptionStatus(calls[c].out.value) = 401
            /\ ExceptionResponse(calls[c].out.value)
                   = ExceptionResponse(calls[d].out.value)

\* One finished login had an unknown email, another a known email with a
\* wrong password.
C3_Witness ==
    \E c \in Calls, d \in Calls :
        /\ StoreAnswered(calls[c]) /\ EmailUnknown(calls[c].input)
        /\ StoreAnswered(calls[d]) /\ PasswordWrong(calls[d].input)
        /\ calls[c].asked # <<>> /\ calls[d].compared # <<>>

\* C11 - Infrastructure failures stay distinct: when findByEmail or the
\* password comparison fails with an error, execute fails with that same
\* error, never with UnauthorizedException, never with a returned value, and
\* neither collaborator is called a second time.
C11_InfrastructureFailuresDistinct ==
    \A c \in Calls :
        calls[c].failed.type # "undefined" =>
            /\ calls[c].pc = "done"
            /\ calls[c].out = Thrown(calls[c].failed)
            /\ calls[c].out.kind # "return"
            /\ calls[c].out.value # UnauthorizedException(InvalidCredentials)
            /\ Len(calls[c].asked) = 1
            /\ Len(calls[c].compared) <= 1

\* One call failed in the store lookup, another in the password comparison.
C11_Witness ==
    \E c \in Calls, d \in Calls :
        /\ calls[c].failed \in InfrastructureErrors /\ calls[c].compared = <<>>
        /\ calls[d].failed \in InfrastructureErrors /\ calls[d].compared # <<>>

\* Some stored record has the email of `input` and a hash its password matches.
ValidCredentials(input) == \E row \in RowsOf(input) : Matches(input, row)

\* C12 - Login is read-only and repeatable: whatever login calls ran, finished
\* or still suspended, the stored records are the ones before them and create
\* was never called; two finished logins with identical valid credentials
\* both succeed, with equal results.
C12_ReadOnlyRepeatable ==
    /\ users = SeedUsers
    /\ creates = <<>>
    /\ \A c \in Calls, d \in Calls :
           ( /\ StoreAnswered(calls[c]) /\ StoreAnswered(calls[d])
             /\ calls[c].input = calls[d].input
             /\ ValidCredentials(calls[c].input) ) =>
               /\ calls[c].out.kind = "return"
               /\ calls[d].out = calls[c].out

\* Two different logins with the same valid credentials have both returned.
C12_Witness ==
    \E c \in Calls, d \in Calls :
        /\ c # d
        /\ calls[c].input = calls[d].input
        /\ calls[c].out.kind = "return" /\ calls[d].out.kind = "return"

\* C20 - Email uniqueness and normalization in the store: after any sequence
\* of create operations, all stored emails are pairwise distinct, each is in
\* lowercase form, and no two differ only in letter case.
C20_AsStated ==
    /\ \A a \in users, b \in users :
           a # b => ToLowerCase(a.fields.email.prim) # ToLowerCase(b.fields.email.prim)
    /\ \A a \in users : a.fields.email.prim = ToLowerCase(a.fields.email.prim)

\* `input` with its email lowercased and trimmed.
Normalized(input) ==
    LoginInput(JStr(EmailTransform(Prop(input, "email").prim)), Prop(input, "password"))

\* C13 - The use case normalizes on its own: execute looks up the lowercased
\* and trimmed email, so a call with email E and password p ends as the call
\* with lowercase(trim(E)) and p does.
C13_AsStated ==
    /\ \A c \in Calls :
           calls[c].asked # <<>> =>
               calls[c].asked[1] = Prop(Normalized(calls[c].input), "email")
    /\ \A c \in Calls, d \in Calls :
           ( /\ StoreAnswered(calls[c]) /\ StoreAnswered(calls[d])
             /\ calls[d].input = Normalized(calls[c].input) ) =>
               calls[c].out = calls[d].out

\* The fields of `body` that break a rule of the login schema.
ViolatedFields(body) ==
    {f \in {"email", "password"} :
        (IF f = "email" THEN EmailIssues(Prop(body, f))
         ELSE PasswordIssues(Prop(body, f))) # <<>>}

\* C14 - Validation error list: for an invalid login body the reported list
\* has exactly one entry per violated field, each {path: [field], message},
\* and no field appears in more than one entry.
C14_AsStated ==
    parsed.body # Nothing =>
        /\ \A i \in DOMAIN parsed.issues :
               /\ DOMAIN parsed.issues[i] = {"path", "message"}
               /\ \E f \in ViolatedFields(parsed.body) : parsed.issues[i].path = <<f>>
        /\ \A f \in ViolatedFields(parsed.body) :
               Cardinality({i \in DOMAIN parsed.issues : parsed.issues[i].path = <<f>>}) = 1

\* C15 - Password length bounds: a login request whose email is valid is
\* accepted by the validation layer (not answered 400) exactly when its
\* password has between 6 and 100 characters.
C15_AsStated ==
    ( /\ http.pc = "sent"
      /\ EmailIssues(Prop(http.body, "email")) = <<>>
      /\ Prop(http.body, "password").type = "string" ) =>
        ( http.status # 400 <=>
              /\ Len(Prop(http.body, "password").prim) >= 6
              /\ Len(Prop(http.body, "password").prim) <= 100 )

C21_SessionFrame ==
    /\ session.accesses = <<>>
    /\ session.data = InitialSession.data
    /\ ~HasKey(session.data, "userId")

\* A successful login was answered and the session is as it was.
C21_Witness ==
    /\ http.pc = "sent" /\ http.status = 200
    /\ calls[HttpCall].out.kind = "return"
    /\ session = InitialSession

\* How often `name` occurs in the call trace `trace`.
Count(trace, name) == Cardinality({i \in DOMAIN trace : trace[i] = name})

\* C22 - Collaborator call order: every execution of execute calls
\* findByEmail exactly once and first; it calls the password comparison at
\* most once, only after findByEmail returned a user, and never when the
\* email is unknown.
C22_CallOrder ==
    \A c \in Calls :
        /\ calls[c].pc = "idle" => calls[c].trace = <<>>
        /\ calls[c].pc # "idle" =>
               /\ calls[c].trace[1] = "findByEmail"
               /\ Count(calls[c].trace, "findByEmail") = 1
               /\ Len(calls[c].asked) = 1
               /\ Count(calls[c].trace, "compare") <= 1
               /\ Len(calls[c].compared) = Count(calls[c].trace, "compare")
               /\ Count(calls[c].trace, "compare") = 1 =>
                      /\ Truthy(calls[c].user)
                      /\ ~EmailUnknown(calls[c].input)
               /\ EmailUnknown(calls[c].input) => calls[c].compared = <<>>

\* One execution ended on an unknown email without a comparison, another
\* compared a password and ended.
C22_Witness ==
    \E c \in Calls, d \in Calls :
        /\ StoreAnswered(calls[c]) /\ EmailUnknown(calls[c].input)
        /\ calls[c].trace = <<"findByEmail">>
        /\ StoreAnswered(calls[d]) /\ calls[d].trace = <<"findByEmail", "compare">>

\* The public fields of a stored record.
PublicFields(row) ==
    JObj([id |-> row.fields.id, email |-> row.fields.email,
          name |-> row.fields.name, createdAt |-> row.fields.created_at,
          updatedAt |-> row.fields.updated_at])

\* The user object of a response body ({success, data: {user, ...}, ...}).
ResponseUser(resp) == Prop(Prop(resp, "data"), "user")

\* C4 - Login success: a POST /auth/login request with a stored user's email
\* and a password matching that user's hash is answered with 200 and a user
\* carrying exactly the stored record's id, email, name, createdAt, updatedAt.
C4_AsStated ==
    \A row \in RowsOf(http.body) :
        (http.pc = "sent" /\ Matches(http.body, row)) =>
            /\ http.status = 200
            /\ ResponseUser(http.resp) = PublicFields(row)

\* `t` occurs in `str` (both sequences of characters).
HasSubstring(str, t) ==
    \E i \in 0..(Len(str) - Len(t)) : SubSeq(str, i + 1, i + Len(t)) = t

\* Some string inside value `v` contains `secret`.
RECURSIVE Contains(_, _)
Contains(v, secret) ==
    CASE v.type = "string" -> HasSubstring(v.prim, secret)
      [] v.type = "object" -> \E k \in DOMAIN v.fields : Contains(v.fields[k], secret)
      [] OTHER -> FALSE

\* The stored hashes, and the plaintext submitted in `input` if any.
Secrets(input) ==
    {row.fields.password.prim : row \in users}
    \cup (IF Prop(input, "password").type = "string"
          THEN {Prop(input, "password").prim} ELSE {})

\* C5 - Password secrecy: no value returned by LoginUseCase.execute and no
\* response body of POST /auth/login contains a stored password hash or the
\* submitted plaintext password.
C5_AsStated ==
    /\ \A c \in Calls :
           calls[c].out.kind = "return" =>
               \A secret \in Secrets(calls[c].input) :
                   ~Contains(calls[c].out.value, secret)
    /\ http.pc = "sent" =>
           \A secret \in Secrets(http.body) : ~Contains(http.resp, secret)

\* C6 - Normalization before lookup: when a POST /auth/login request reaches
\* the use case, findByEmail receives the request's email lowercased and
\* trimmed; a request with 'USER@Example.com' and the right password logs in
\* the stored user 'user@example.com'.
C6_AsStated ==
    /\ (calls[HttpCall].asked # <<>> /\ Prop(http.body, "email").type = "string") =>
           calls[HttpCall].asked[1] = JStr(EmailTransform(Prop(http.body, "email").prim))
    /\ ( /\ http.pc = "sent"
         /\ http.body = JObj([email |-> JStr(Email_USER),
                              password |-> JStr(Password_seed)]) ) =>
           /\ http.status = 200
           /\ Prop(ResponseUser(http.resp), "email") = JStr(Email_user)

\* C7 - Validation boundary: a request whose body violates the login schema
\* is answered with 400, and LoginUseCase.execute is never invoked for it (no
\* lookup in the credential store, no password comparison).
C7_AsStated ==
    (http.pc # "idle" /\ LoginSchemaIssues(http.body) # <<>>) =>
        /\ http.pc = "sent" => http.status = 400
        /\ calls[HttpCall].pc = "idle"
        /\ calls[HttpCall].asked = <<>>
        /\ calls[HttpCall].compared = <<>>

(***************************************************************************)
(* Claims on the application setup                                         *)
(***************************************************************************)
\* C25 - Websocket adapter ordering: in every run of AppConfig.setup the
\* adapter is registered only after both Redis clients have connected (and
\* the adapter constructor has been assigned); once a connection failed the
\* run registers no adapter, assigns no constructor and ends failed; no
\* server is ever given an unset adapter constructor.
C25_AdapterOrdering ==
    \A k \in Setups :
        /\ setup[k].registered =>
              /\ setup[k].pub = "connected"
              /\ setup[k].sub = "connected"
              /\ setup[k].adapterConstructor # Unset
        /\ (setup[k].pub = "failed" \/ setup[k].sub = "failed") =>
              /\ ~setup[k].registered
              /\ setup[k].adapterConstructor = Unset
              /\ setup[k].pc \in {"connecting", "failed"}
        /\ \A i \in DOMAIN setup[k].servers : setup[k].servers[i] # Unset

\* One run registered its adapter and created a server with it; another
\* run failed because its subscribe client failed after the publish client
\* had connected.
C25_Witness ==
    \E k, j \in Setups :
        /\ setup[k].registered
        /\ setup[k].servers # <<>>
        /\ setup[j].pc = "failed"
        /\ setup[j].pub = "connected"
        /\ setup[j].sub = "failed"
        /\ ~setup[j].registered
\* The host of an origin: what stands between the scheme and the port.
OriginHost(origin) ==
    LET plain == <<"h", "t", "t", "p", ":", "/", "/">>
        secure == <<"h", "t", "t", "p", "s", ":", "/", "/">>
        rest == IF Len(origin) >= Len(secure) /\ SubSeq(origin, 1, Len(secure)) = secure
                THEN SubSeq(origin, Len(secure) + 1, Len(origin))
                ELSE IF Len(origin) >= Len(plain) /\ SubSeq(origin, 1, Len(plain)) = plain
                THEN SubSeq(origin, Len(plain) + 1, Len(origin))
                ELSE origin
    IN SplitOn(rest, ":")[1]

\* localhost or 127.0.0.1
IsLoopbackOrigin(origin) ==
    OriginHost(origin) \in {<<"l", "o", "c", "a", "l", "h", "o", "s", "t">>,
                            <<"1", "2", "7", ".", "0", ".", "0", ".", "1">>}

\* 192.168.x.x, 10.x.x.x or 172.16-31.x.x
IsPrivateNetworkOrigin(origin) ==
    LET q == SplitOn(OriginHost(origin), ".") IN
    /\ Len(q) = 4
    /\ \A i \in 1..4 : IsOctet(q[i])
    /\ \/ q[1] = <<"1", "9", "2">> /\ q[2] = <<"1", "6", "8">>
       \/ q[1] = <<"1", "0">>
       \/ /\ q[1] = <<"1", "7", "2">>
          /\ q[2] \in {<<"1", "6">>, <<"1", "7">>, <<"1", "8">>, <<"1", "9">>,
                       <<"2", "0">>, <<"2", "1">>, <<"2", "2">>, <<"2", "3">>,
                       <<"2", "4">>, <<"2", "5">>, <<"2", "6">>, <<"2", "7">>,
                       <<"2", "8">>, <<"2", "9">>, <<"3", "0">>, <<"3", "1">>}

\* CORS_ORIGIN is set to a non-empty list whose first entry is not '*'.
RestrictiveSetting(corsOrigin) ==
    /\ corsOrigin.type = "string"
    /\ corsOrigin.prim # <<>>
    /\ SplitOn(corsOrigin.prim, ",")[1] # <<"*">>

\* C26 as stated - CORS allow-list: under a CORS_ORIGIN whose first entry is
\* not '*', an origin that is not absent, not 'null', not listed, not a
\* loopback and not a private-network origin is rejected with 'Not allowed
\* by CORS' (an origin is accepted only if it is one of those).
C26_AsStated ==
    (/\ cors.asked
     /\ RestrictiveSetting(cors.corsOrigin)
     /\ cors.origin.type = "string"
     /\ cors.origin.prim # <<"n", "u", "l", "l">>
     /\ cors.origin.prim \notin Range(SplitOn(cors.corsOrigin.prim, ","))
     /\ ~IsLoopbackOrigin(cors.origin.prim)
     /\ ~IsPrivateNetworkOrigin(cors.origin.prim))
    => cors.result = NotAllowedByCors

====
